---- MODULE Spec2Model ----
(***************************************************************************)
(* Model of the talkative client library: the four request-issuing         *)
(* operations (Chat, PlainChat, Completion, PlainCompletion), the          *)
(* background task each starts, the two streamers (StreamResponse and      *)
(* StreamPlainResponse) and the completion channel.                        *)
(*                                                                         *)
(* The response body is a sequence of tokens.  Each token is a fixed run   *)
(* of bytes of the service's wire format (shown for CompletionResponse;    *)
(* for ChatResponse the text sits in message.content instead):             *)
(*     "{a}"  =  {"response":"a"}     one complete JSON object, text "a"   *)
(*     "{"    =  {"response":         an object opened, value still due    *)
(*     "c}"   =  "c","done":true}     a string value, the member done set  *)
(*                                    to true, and a closing brace         *)
(*     "\n"   =  a newline                                                 *)
(* A Read on the body hands out one or more whole tokens, so a read may    *)
(* end between "{" and "c}" (in the middle of an object) or carry several  *)
(* objects at once.                                                        *)
(***************************************************************************)
EXTENDS Integers, Sequences, FiniteSets, TLC

\* Longest response body, in tokens.
MaxLen == 5
\* Most responses in a body written the way the test servers write.
MaxObjects == 3
\* Longest response body when two operations run side by side.
MaxLen2 == 1
\* Longest body of a response with status 400, in tokens.
MaxErrLen == 2
\* Longest URL given to New, in characters.
MaxUrl == 3

ObjA == "{a}"
Open == "{"
TailC == "c}"
NL == "\n"
Tokens == {ObjA, Open, TailC, NL}

Ops == {"Chat", "PlainChat", "Completion", "PlainCompletion"}
Typed(o) == o \in {"Chat", "Completion"}

StatusOK == 200
StatusBadRequest == 400
Statuses == {200, 201, 400, 404, 500}

VARIABLES
    op,       \* the operation called, "none" before the call
    req,      \* the call: arguments given and what the POST came back with
    posts,    \* number of HTTP requests sent
    ret,      \* what the operation returned: [ch, err]; NotReturned before it returns
    pc,       \* position of the background task
    stream,   \* bytes the body has handed out so far
    term,     \* "open", or the way the body ended: "EOF" / "ERR"
    buf,      \* bytes held by the current json.Decoder / the bufio.Reader
    pending,  \* arguments of the callback invocation about to be made
    calls,    \* callback invocations made so far, in order
    inflight, \* callback invocations that have not returned yet
    reads,    \* number of body.Read calls
    closed,   \* number of body.Close calls
    chan,     \* values buffered in chDone
    sent,     \* number of completed sends on chDone
    recvd,    \* number of values the caller received from chDone
    cause,    \* the error Decode returned, wrapped in the error given to the callback
    mem,      \* the response variables decoded into so far, one per pointer handed out
    \* two operations started from one Client (specification SpecTwo)
    tasks,    \* per operation: [op, pc, stream, term, buf, pending, calls, closed, ch, ret]
    chans,    \* per channel: the buffered values, each tagged with its sender
    got,      \* per operation: what its caller received, tagged with the sender
    \* making a Client and building a request (specification SpecClient)
    newcall,  \* the call of New: [url, client, err], client "nil" or its two endpoints
    request   \* the request posted: [op, arg, url, model]

one == <<op, req, posts, ret, pc, stream, term, buf, pending, calls, inflight, reads, closed,
         chan, sent, recvd, cause, mem>>
two == <<tasks, chans, got>>
three == <<newcall, request>>
vars == <<one, two, three>>

NoCall == [val |-> "nil", err |-> "nil"]
NotReturned == [ch |-> FALSE, err |-> "nil"]

----
(* encoding/json scanner, over tokens *)

\* One scanner step.  States: "begin" (a top-level value is due), "val1"
\* (inside the outermost object, a member value is due), "valN" (the same,
\* nested deeper), "after" (inside an object, after a member value), "endA"
\* and "endC" (a complete top-level object with text a / c), "endS" (a
\* complete top-level string: the scanner ends the value at the byte after
\* it, the value is no object), "error" (a syntax error).
ScanStep(s, t) ==
    CASE s = "begin" ->
            (CASE t = NL -> "begin"
               [] t = ObjA -> "endA"
               [] t = Open -> "val1"
               [] OTHER -> "endS")
      [] s = "val1" ->
            (CASE t = NL -> "val1"
               [] t = ObjA -> "after"
               [] t = Open -> "valN"
               [] OTHER -> "endC")
      [] s = "valN" ->
            (CASE t = NL -> "valN"
               [] t = Open -> "valN"
               [] OTHER -> "after")
      [] s = "after" ->
            (CASE t = NL -> "after"
               [] OTHER -> "error")
      [] OTHER -> s

RECURSIVE ScanRun(_, _, _)
\* Decoder.readValue over the buffer b from index i on: stops at the first
\* complete value or error, bytes after it are not looked at.
ScanRun(s, b, i) ==
    IF i > Len(b) \/ s \in {"endA", "endC", "endS", "error"}
    THEN s
    ELSE ScanRun(ScanStep(s, b[i]), b, i + 1)

Scan(b) == ScanRun("begin", b, 1)

nonSpace(b) == \E i \in 1..Len(b) : b[i] # NL

Decoded(s) == IF s = "endA" THEN "a" ELSE "c"

\* The Done field of a decoded response: set in the object "{" "c}", absent
\* (false) in "{a}".
Done(v) == v = "c"

\* Number of bytes of b the first complete value takes (Decoder.scanp after
\* a successful Decode).
ValueEnd(b) ==
    CHOOSE i \in 1..Len(b) :
        /\ Scan(SubSeq(b, 1, i)) \in {"endA", "endC"}
        /\ \A j \in 1..(i - 1) : Scan(SubSeq(b, 1, j)) \notin {"endA", "endC"}

----
(* bufio.Reader.ReadString('\n') *)

HasNL(b) == \E i \in 1..Len(b) : b[i] = NL
FirstNL(b) == CHOOSE i \in 1..Len(b) : b[i] = NL /\ \A j \in 1..(i-1) : b[j] # NL

Line_NoDelim(b, i) == SubSeq(b, 1, i - 1)
\* The string ReadString returns, the delimiter at index i included.
Line(b, i) == SubSeq(b, 1, i)

Rest_Dropped(b, i) == <<>>
\* What stays in the bufio.Reader for the next ReadString.
Rest(b, i) == SubSeq(b, i + 1, Len(b))

----
(* the response body *)

Chunks(n) == UNION {[1..k -> Tokens] : k \in 1..n}

IsPrefix(p, q) == Len(p) <= Len(q) /\ SubSeq(q, 1, Len(p)) = p

\* What the test servers write for one response: writer.Encode(response),
\* which is the object and a newline, and then w.Write([]byte("\n")).
Written == {<<ObjA, NL, NL>>, <<Open, TailC, NL, NL>>}

RECURSIVE ServerBodies(_)
\* The bodies of up to n responses written that way.
ServerBodies(n) ==
    IF n = 0 THEN {<<>>}
    ELSE ServerBodies(n - 1) \cup {b \o w : b \in ServerBodies(n - 1), w \in Written}

\* The bytes the next Read can carry after the bytes s: any tokens while the
\* body stays within MaxLen tokens, or the next bytes of a body of up to
\* MaxObjects responses written as the test servers write.
NextBytes(s) ==
    Chunks(MaxLen - Len(s))
    \cup UNION {{SubSeq(b, Len(s) + 1, j) : j \in (Len(s) + 1)..Len(b)} :
                  b \in {x \in ServerBodies(MaxObjects) : IsPrefix(s, x)}}

\* What one body.Read can return: some more bytes, the end of the body
\* (end-of-stream or a read error), or the last bytes together with the end;
\* once the body has ended every later Read returns the end again.  The
\* bytes are chosen when they are read, so every body and every split of it
\* into reads is covered.
ReadOutcomes ==
    IF term = "open"
    THEN {[data |-> c, err |-> e] : c \in NextBytes(stream), e \in {"nil", "EOF", "ERR"}}
         \cup {[data |-> <<>>, err |-> e] : e \in {"EOF", "ERR"}}
    ELSE {[data |-> <<>>, err |-> term]}

Body(r) ==
    /\ reads' = reads + 1
    /\ stream' = stream \o r.data
    /\ term' = IF r.err = "nil" THEN term ELSE r.err

----
(* Chat, PlainChat, Completion, PlainCompletion *)

Dispatch_IgnoresStatus(cbNil, noMsg, encErr, postErr, status) ==
    IF cbNil THEN [ch |-> FALSE, err |-> "ErrCallback"]
    ELSE IF noMsg THEN [ch |-> FALSE, err |-> "ErrMessage"]
    ELSE IF encErr THEN [ch |-> FALSE, err |-> "ErrEncoding"]
    ELSE IF postErr THEN [ch |-> FALSE, err |-> "transport"]
    ELSE [ch |-> TRUE, err |-> "nil"]

Dispatch_All4xx(cbNil, noMsg, encErr, postErr, status) ==
    IF cbNil THEN [ch |-> FALSE, err |-> "ErrCallback"]
    ELSE IF noMsg THEN [ch |-> FALSE, err |-> "ErrMessage"]
    ELSE IF encErr THEN [ch |-> FALSE, err |-> "ErrEncoding"]
    ELSE IF postErr THEN [ch |-> FALSE, err |-> "transport"]
    ELSE IF status # StatusOK
         THEN IF status \in 400..499
              THEN [ch |-> FALSE, err |-> "ErrBadRequest"]
              ELSE [ch |-> FALSE, err |-> "ErrInvoke"]
    ELSE [ch |-> TRUE, err |-> "nil"]

Dispatch_NoBadRequest(cbNil, noMsg, encErr, postErr, status) ==
    IF cbNil THEN [ch |-> FALSE, err |-> "ErrCallback"]
    ELSE IF noMsg THEN [ch |-> FALSE, err |-> "ErrMessage"]
    ELSE IF encErr THEN [ch |-> FALSE, err |-> "ErrEncoding"]
    ELSE IF postErr THEN [ch |-> FALSE, err |-> "transport"]
    ELSE IF status # StatusOK THEN [ch |-> FALSE, err |-> "ErrInvoke"]
    ELSE [ch |-> TRUE, err |-> "nil"]

Dispatch_MessageFirst(cbNil, noMsg, encErr, postErr, status) ==
    IF noMsg THEN [ch |-> FALSE, err |-> "ErrMessage"]
    ELSE IF cbNil THEN [ch |-> FALSE, err |-> "ErrCallback"]
    ELSE IF encErr THEN [ch |-> FALSE, err |-> "ErrEncoding"]
    ELSE IF postErr THEN [ch |-> FALSE, err |-> "transport"]
    ELSE IF status # StatusOK
         THEN IF status = StatusBadRequest
              THEN [ch |-> FALSE, err |-> "ErrBadRequest"]
              ELSE [ch |-> FALSE, err |-> "ErrInvoke"]
    ELSE [ch |-> TRUE, err |-> "nil"]

Dispatch_WrapsTransport(cbNil, noMsg, encErr, postErr, status) ==
    IF cbNil THEN [ch |-> FALSE, err |-> "ErrCallback"]
    ELSE IF noMsg THEN [ch |-> FALSE, err |-> "ErrMessage"]
    ELSE IF encErr THEN [ch |-> FALSE, err |-> "ErrEncoding"]
    ELSE IF postErr THEN [ch |-> FALSE, err |-> "ErrInvoke"]
    ELSE IF status # StatusOK
         THEN IF status = StatusBadRequest
              THEN [ch |-> FALSE, err |-> "ErrBadRequest"]
              ELSE [ch |-> FALSE, err |-> "ErrInvoke"]
    ELSE [ch |-> TRUE, err |-> "nil"]

Dispatch_Any2xx(cbNil, noMsg, encErr, postErr, status) ==
    IF cbNil THEN [ch |-> FALSE, err |-> "ErrCallback"]
    ELSE IF noMsg THEN [ch |-> FALSE, err |-> "ErrMessage"]
    ELSE IF encErr THEN [ch |-> FALSE, err |-> "ErrEncoding"]
    ELSE IF postErr THEN [ch |-> FALSE, err |-> "transport"]
    ELSE IF status \notin 200..299
         THEN IF status = StatusBadRequest
              THEN [ch |-> FALSE, err |-> "ErrBadRequest"]
              ELSE [ch |-> FALSE, err |-> "ErrInvoke"]
    ELSE [ch |-> TRUE, err |-> "nil"]

\* The synchronous part of the four operations: argument checks, the
\* encoding of the request, the POST and the status switch.
Dispatch(cbNil, noMsg, encErr, postErr, status) ==
    IF cbNil THEN [ch |-> FALSE, err |-> "ErrCallback"]
    ELSE IF noMsg THEN [ch |-> FALSE, err |-> "ErrMessage"]
    ELSE IF encErr THEN [ch |-> FALSE, err |-> "ErrEncoding"]
    ELSE IF postErr THEN [ch |-> FALSE, err |-> "transport"]
    ELSE IF status # StatusOK
         THEN IF status = StatusBadRequest
              THEN [ch |-> FALSE, err |-> "ErrBadRequest"]
              ELSE [ch |-> FALSE, err |-> "ErrInvoke"]
    ELSE [ch |-> TRUE, err |-> "nil"]

\* make(chan bool) in Chat and PlainChat, make(chan bool, 1) in Completion
\* and PlainCompletion.
ChanCap(o) == IF o \in {"Chat", "PlainChat"} THEN 0 ELSE 1

\* json.NewEncoder(body).Encode(request) can fail in Chat and PlainChat,
\* whose request carries the caller's Options map; the request of Completion
\* and PlainCompletion holds strings only.
EncodeCanFail(o) == o \in {"Chat", "PlainChat"}

\* go func() { Stream...; chDone <- true }(): the background task starts at
\* the top of the streamer's loop; an operation that fails starts none.
Go(r) == IF r.ch THEN "read" ELSE "failed"

\* io.ReadAll(res.Body) on a response with status 400: the body is read to
\* its end, in n Reads; the error that ended it is dropped.
ReadAll ==
    {[data |-> c, err |-> e, n |-> n] :
        c \in {<<>>} \cup Chunks(MaxErrLen), e \in {"EOF", "ERR"}, n \in 1..(MaxErrLen + 1)}

\* The operation up to its go statement, or up to the return of its error.
Call ==
    /\ pc = "init"
    /\ \E o \in Ops, cbNil \in BOOLEAN, noMsg \in BOOLEAN, encErr \in BOOLEAN,
          postErr \in BOOLEAN, status \in Statuses :
          LET r == Dispatch(cbNil, noMsg, encErr, postErr, status) IN
          /\ encErr => EncodeCanFail(o)
          /\ op' = o
          /\ req' = [cbNil |-> cbNil, noMsg |-> noMsg, encErr |-> encErr,
                     postErr |-> postErr, status |-> status]
          /\ posts' = IF r.err \in {"ErrCallback", "ErrMessage", "ErrEncoding"} THEN 0 ELSE 1
          /\ ret' = IF r.ch THEN NotReturned ELSE r
          /\ pc' = Go(r)
          /\ IF r.err = "ErrBadRequest"
             THEN \E b \in ReadAll :
                     /\ b.n <= Len(b.data) + 1
                     /\ stream' = b.data /\ term' = b.err /\ reads' = b.n
                     /\ closed' = 1
             ELSE stream' = stream /\ term' = term /\ reads' = reads /\ closed' = 0
    /\ UNCHANGED <<buf, pending, calls, chan, sent, recvd, inflight, tasks, chans, got, cause, newcall, request, mem>>

ReturnWaits_ForTask == pc # "done"
\* return chDone, nil follows the go statement directly: nothing between the
\* two waits for the background task.
ReturnWaits == FALSE

\* return chDone, nil: the operation hands the channel to its caller, the
\* background task being anywhere between its start and its end.
ReturnChan ==
    /\ op # "none" /\ pc # "failed"
    /\ ret = NotReturned
    /\ ~ReturnWaits
    /\ ret' = [ch |-> TRUE, err |-> "nil"]
    /\ UNCHANGED <<op, req, posts, pc, stream, term, buf, pending, calls, reads, closed, chan, sent, recvd, inflight, tasks, chans, got, cause, newcall, request, mem>>

----
(* StreamResponse *)

Decode_EOFIsError(b, rerr) ==
    LET s == Scan(b) IN
    IF s \in {"endA", "endC"} THEN "value"
    ELSE IF s \in {"endS", "error"} THEN "error"
    ELSE IF rerr = "nil" THEN "refill"
    ELSE "error"

Decode_ErrorIsEOF(b, rerr) ==
    LET s == Scan(b) IN
    IF s \in {"endA", "endC"} THEN "value"
    ELSE IF s \in {"endS", "error"} THEN "io.EOF"
    ELSE IF rerr = "nil" THEN "refill"
    ELSE IF rerr = "EOF" /\ ~nonSpace(b) THEN "io.EOF"
    ELSE "error"

\* (*Decoder).Decode on the bytes b this decoder has read, the last Read
\* having returned rerr: "refill" (read again), "value", "io.EOF", "error".
Decode(b, rerr) ==
    LET s == Scan(b) IN
    IF s \in {"endA", "endC"} THEN "value"
    ELSE IF s \in {"endS", "error"} THEN "error"
    ELSE IF rerr = "nil" THEN "refill"
    ELSE IF rerr = "EOF" /\ ~nonSpace(b) THEN "io.EOF"
    ELSE "error"

ZeroResponse == [text |-> "", done |-> FALSE]

\* Decode(&response) of a complete object that left the scanner in state s:
\* the fields the object has are set, the others are left as they were.
DecodeInto(v, s) ==
    IF s = "endA" THEN [v EXCEPT !.text = "a"]
    ELSE [v EXCEPT !.text = "c", !.done = TRUE]

VarResponse_Outside(m) == IF m = <<>> THEN ZeroResponse ELSE m[Len(m)]
\* var response T in the body of the loop: every iteration declares a new
\* variable, which holds the zero value.
VarResponse(m) == ZeroResponse

Retained_Shared(m, v) == [i \in 1..Len(m) |-> v]
\* The variables of the earlier iterations, to which the callback may still
\* hold pointers, after this iteration decoded v: they are other variables.
Retained(m, v) == m

\* The error Decode returns in the "error" case: the scanner's SyntaxError,
\* an UnmarshalTypeError when the value is a string (it cannot be stored in
\* the response struct), io.ErrUnexpectedEOF when the body ends inside a
\* value, or the error of the Read itself.
DecodeError(b, rerr) ==
    IF Scan(b) = "error" THEN "SyntaxError"
    ELSE IF Scan(b) = "endS" THEN "UnmarshalTypeError"
    ELSE IF rerr = "EOF" THEN "ErrUnexpectedEOF"
    ELSE rerr

DecodeFailure_Unwrapped(e) == [val |-> "nil", err |-> e]
\* cb(nil, fmt.Errorf("%w: %v", ErrDecoding, err)): the arguments of the
\* error invocation; the error matches ErrDecoding, its text ends with the
\* text of e.
DecodeFailure(e) == [val |-> "nil", err |-> "ErrDecoding"]

\* json.NewDecoder(body): a decoder starts with an empty buffer; what the
\* previous decoder had read beyond its value stays with that decoder.
NewDecoder(left) == <<>>

AfterCallback_NoReturn(e) == "read"
AfterCallback_NoClose(e) == IF e = "nil" THEN "read" ELSE "send"
\* Position after a callback invocation that carried error e: the loop goes
\* on after a success and returns (running the deferred Close) after an error.
AfterCallback(e) == IF e = "nil" THEN "read" ELSE "close"

TypedRead ==
    /\ pc = "read" /\ Typed(op)
    /\ \E r \in ReadOutcomes :
          LET b == buf \o r.data
              d == Decode(b, r.err)
          IN
          /\ Body(r)
          /\ cause' = IF d = "error" THEN DecodeError(b, r.err) ELSE cause
          /\ mem' = IF d = "value"
                    THEN LET v == DecodeInto(VarResponse(mem), Scan(b)) IN
                         Append(Retained(mem, v), v)
                    ELSE mem
          /\ CASE d = "refill" -> pc' = "read" /\ pending' = pending /\ buf' = b
               [] d = "io.EOF" -> pc' = "close" /\ pending' = pending /\ buf' = b
               [] d = "error" ->
                    /\ pc' = "cb"
                    /\ pending' = DecodeFailure(DecodeError(b, r.err))
                    /\ buf' = b
               [] d = "value" ->
                    /\ pc' = "cb"
                    /\ pending' = [val |-> Decoded(Scan(b)), err |-> "nil"]
                    /\ buf' = SubSeq(b, ValueEnd(b) + 1, Len(b))
    /\ UNCHANGED <<op, req, posts, ret, calls, closed, chan, sent, recvd, inflight, tasks, chans, got, newcall, request>>

AfterInvoke_Go(e) == AfterCallback(e)
\* cb(...) is a plain call: the loop waits in it until the callback returns.
AfterInvoke(e) == "incb"

\* cb(nil, err) / cb(&response, nil): the invocation starts
TypedCallback ==
    /\ pc = "cb" /\ Typed(op)
    /\ calls' = Append(calls, pending)
    /\ inflight' = inflight + 1
    /\ pc' = AfterInvoke(pending.err)
    /\ UNCHANGED <<op, req, posts, ret, stream, term, buf, pending, reads, closed, chan, sent, recvd, tasks, chans, got, cause, newcall, request, mem>>

\* The callback returns: an error invocation is followed by return, a
\* successful one by the next iteration (in StreamResponse with a new
\* decoder).
Return ==
    /\ pc = "incb"
    /\ inflight' = inflight - 1
    /\ pc' = AfterCallback(pending.err)
    /\ buf' = IF Typed(op) THEN NewDecoder(buf) ELSE buf
    /\ pending' = NoCall
    /\ UNCHANGED <<op, req, posts, ret, stream, term, calls, reads, closed, chan, sent, recvd, tasks, chans, got, cause, newcall, request, mem>>

----
(* StreamPlainResponse *)

\* ReadString finds a newline in the bufio.Reader's buffer: the line up to
\* and including it is returned, the rest stays buffered.
PlainLine ==
    /\ pc = "read" /\ ~Typed(op)
    /\ HasNL(buf)
    /\ LET i == FirstNL(buf) IN
          /\ pending' = [val |-> Line(buf, i), err |-> "nil"]
          /\ buf' = Rest(buf, i)
    /\ pc' = "cb"
    /\ UNCHANGED <<op, req, posts, ret, stream, term, calls, reads, closed, chan, sent, recvd, inflight, tasks, chans, got, cause, newcall, request, mem>>

PlainEnd_Wrapped(data, e) ==
    IF e = "EOF"
    THEN [pc |-> "close", call |-> NoCall]
    ELSE [pc |-> "cb", call |-> [val |-> <<>>, err |-> "ErrDecoding"]]

PlainEnd_FlushAtEOF(data, e) ==
    IF e = "EOF"
    THEN IF data = <<>>
         THEN [pc |-> "close", call |-> NoCall]
         ELSE [pc |-> "cb", call |-> [val |-> data, err |-> "nil"]]
    ELSE [pc |-> "cb", call |-> [val |-> <<>>, err |-> e]]

PlainEnd_WithData(data, e) ==
    IF e = "EOF"
    THEN [pc |-> "close", call |-> NoCall]
    ELSE [pc |-> "cb", call |-> [val |-> data, err |-> e]]

\* What StreamPlainResponse does with ReadString's (data, err) once the
\* body has ended with e: where it goes and the callback arguments, if any.
PlainEnd(data, e) ==
    IF e = "EOF"
    THEN [pc |-> "close", call |-> NoCall]
    ELSE [pc |-> "cb", call |-> [val |-> <<>>, err |-> e]]

\* No newline buffered and the body not ended: ReadString fills the buffer
\* with one Read.  The bufio.Reader keeps the bytes and the error of the
\* Read: a line among the bytes is returned first (PlainLine), the error
\* comes when no newline is left.
PlainRead ==
    /\ pc = "read" /\ ~Typed(op)
    /\ ~HasNL(buf) /\ term = "open"
    /\ \E r \in ReadOutcomes :
          /\ Body(r)
          /\ IF r.err = "nil" \/ HasNL(buf \o r.data)
             THEN /\ buf' = buf \o r.data
                  /\ pc' = "read"
                  /\ pending' = pending
             ELSE /\ buf' = <<>>
                  /\ pc' = PlainEnd(buf \o r.data, r.err).pc
                  /\ pending' = PlainEnd(buf \o r.data, r.err).call
          /\ cause' = cause
    /\ UNCHANGED <<op, req, posts, ret, calls, closed, chan, sent, recvd, inflight, tasks, chans, got, newcall, request, mem>>

\* No newline buffered and the error of the last Read kept by the
\* bufio.Reader: ReadString returns the rest of the buffer with that error,
\* without another Read.
PlainKept ==
    /\ pc = "read" /\ ~Typed(op)
    /\ ~HasNL(buf) /\ term # "open"
    /\ buf' = <<>>
    /\ pc' = PlainEnd(buf, term).pc
    /\ pending' = PlainEnd(buf, term).call
    /\ UNCHANGED <<op, req, posts, ret, stream, term, calls, reads, closed, chan, sent, recvd, inflight, tasks, chans, got, cause, newcall, request, mem>>

\* cb("", err) / cb(data, nil): the invocation starts
PlainCallback ==
    /\ pc = "cb" /\ ~Typed(op)
    /\ calls' = Append(calls, pending)
    /\ inflight' = inflight + 1
    /\ pc' = AfterInvoke(pending.err)
    /\ UNCHANGED <<op, req, posts, ret, stream, term, buf, pending, reads, closed, chan, sent, recvd, tasks, chans, got, cause, newcall, request, mem>>

----
(* the end of the background task, and the caller *)

\* defer body.Close()
Close ==
    /\ pc = "close"
    /\ closed' = closed + 1
    /\ pc' = "send"
    /\ UNCHANGED <<op, req, posts, ret, stream, term, buf, pending, calls, reads, chan, sent, recvd, inflight, tasks, chans, got, cause, newcall, request, mem>>

AfterSend_Again == "send"
\* The background task ends after its one send.
AfterSend == "done"

\* chDone <- true on the buffered channel
Send ==
    /\ pc = "send"
    /\ Len(chan) < ChanCap(op)
    /\ chan' = Append(chan, TRUE)
    /\ sent' = sent + 1
    /\ pc' = AfterSend
    /\ UNCHANGED <<op, req, posts, ret, stream, term, buf, pending, calls, reads, closed, recvd, inflight, tasks, chans, got, cause, newcall, request, mem>>

ChanClosed_AtEnd == pc = "done"
\* chDone is never closed: the task ends after its send, there is no
\* close(chDone).
ChanClosed == FALSE

\* <-done by the caller: takes a buffered value; on a closed, empty channel
\* it would return at once.
Receive ==
    /\ ret.ch
    /\ chan # <<>> \/ ChanClosed
    /\ chan' = IF chan # <<>> THEN Tail(chan) ELSE chan
    /\ recvd' = recvd + 1
    /\ UNCHANGED <<op, req, posts, ret, pc, stream, term, buf, pending, calls, reads, closed, sent, inflight, tasks, chans, got, cause, newcall, request, mem>>

\* chDone <- true on the unbuffered channel, meeting the caller's <-done
Rendezvous ==
    /\ ret.ch
    /\ pc = "send"
    /\ ChanCap(op) = 0
    /\ sent' = sent + 1
    /\ recvd' = recvd + 1
    /\ pc' = AfterSend
    /\ UNCHANGED <<op, req, posts, ret, stream, term, buf, pending, calls, reads, closed, chan, inflight, tasks, chans, got, cause, newcall, request, mem>>

----
(* two operations started concurrently from the same Client *)

Sid == {1, 2}

\* The bodies the service sends to the two operations are made of different
\* tokens, so that a unit shows which body it came from.
TokensOf(s) == IF s = 1 THEN {ObjA, NL} ELSE {Open, TailC, NL}

NoTaskYet ==
    [op |-> "none", pc |-> "init", stream |-> <<>>, term |-> "open", buf |-> <<>>,
     pending |-> NoCall, calls |-> <<>>, closed |-> 0, ch |-> 0, ret |-> NotReturned]

MakeChan_Shared(s) == 1
\* chDone := make(chan bool): every call makes a channel of its own.
MakeChan(s) == s

\* What one Read on the body of operation s can return.
OutcomesOf(t, s) ==
    IF t.term = "open"
    THEN {[data |-> c, err |-> e] :
             c \in UNION {[1..k -> TokensOf(s)] : k \in 1..(MaxLen2 - Len(t.stream))},
             e \in {"nil", "EOF", "ERR"}}
         \cup {[data |-> <<>>, err |-> e] : e \in {"EOF", "ERR"}}
    ELSE {[data |-> <<>>, err |-> t.term]}

\* One iteration step of StreamResponse on the state t of operation s.
TypedSteps(t, s) ==
    {LET b == t.buf \o r.data
         d == Decode(b, r.err)
         u == [t EXCEPT !.stream = t.stream \o r.data,
                        !.term = IF r.err = "nil" THEN t.term ELSE r.err]
     IN CASE d = "refill" -> [u EXCEPT !.buf = b]
          [] d = "io.EOF" -> [u EXCEPT !.buf = b, !.pc = "close"]
          [] d = "error" ->
                [u EXCEPT !.buf = b, !.pc = "cb",
                          !.pending = DecodeFailure(DecodeError(b, r.err))]
          [] d = "value" ->
                [u EXCEPT !.buf = SubSeq(b, ValueEnd(b) + 1, Len(b)), !.pc = "cb",
                          !.pending = [val |-> Decoded(Scan(b)), err |-> "nil"]]
     : r \in OutcomesOf(t, s)}

\* One iteration step of StreamPlainResponse on the state t of operation s.
PlainSteps(t, s) ==
    IF HasNL(t.buf)
    THEN {[t EXCEPT !.pending = [val |-> Line(t.buf, FirstNL(t.buf)), err |-> "nil"],
                    !.buf = Rest(t.buf, FirstNL(t.buf)),
                    !.pc = "cb"]}
    ELSE IF t.term # "open"
    THEN {[t EXCEPT !.buf = <<>>,
                    !.pc = PlainEnd(t.buf, t.term).pc,
                    !.pending = PlainEnd(t.buf, t.term).call]}
    ELSE {LET u == [t EXCEPT !.stream = t.stream \o r.data,
                             !.term = IF r.err = "nil" THEN t.term ELSE r.err]
          IN IF r.err = "nil" \/ HasNL(t.buf \o r.data)
             THEN [u EXCEPT !.buf = t.buf \o r.data]
             ELSE [u EXCEPT !.buf = <<>>,
                            !.pc = PlainEnd(t.buf \o r.data, r.err).pc,
                            !.pending = PlainEnd(t.buf \o r.data, r.err).call]
          : r \in OutcomesOf(t, s)}

\* The steps the background task of operation s can take by itself.
TaskSteps(t, s) ==
    CASE t.pc = "read" -> IF Typed(t.op) THEN TypedSteps(t, s) ELSE PlainSteps(t, s)
      [] t.pc = "cb" ->
            {[t EXCEPT !.calls = Append(t.calls, t.pending), !.pc = AfterInvoke(t.pending.err)]}
      [] t.pc = "incb" ->
            {[t EXCEPT !.pc = AfterCallback(t.pending.err),
                       !.buf = IF Typed(t.op) THEN NewDecoder(t.buf) ELSE t.buf,
                       !.pending = NoCall]}
      [] t.pc = "close" -> {[t EXCEPT !.closed = t.closed + 1, !.pc = "send"]}
      [] OTHER -> {}

\* Chat / PlainChat / Completion / PlainCompletion up to the go statement,
\* the POST answered 200.
CallTwo(s) ==
    /\ tasks[s].pc = "init"
    /\ \E o \in Ops :
          LET r == Dispatch(FALSE, FALSE, FALSE, FALSE, StatusOK) IN
          tasks' = [tasks EXCEPT ![s] = [@ EXCEPT !.op = o, !.pc = Go(r),
                                                  !.ch = MakeChan(s)]]
    /\ UNCHANGED <<chans, got, one, three>>

\* return chDone, nil
ReturnTwo(s) ==
    /\ tasks[s].op # "none" /\ tasks[s].ret = NotReturned
    /\ ~ReturnWaits
    /\ tasks' = [tasks EXCEPT ![s].ret = [ch |-> TRUE, err |-> "nil"]]
    /\ UNCHANGED <<chans, got, one, three>>

TaskStep(s) ==
    /\ \E n \in TaskSteps(tasks[s], s) : tasks' = [tasks EXCEPT ![s] = n]
    /\ UNCHANGED <<chans, got, one, three>>

SendTwo(s) ==
    /\ tasks[s].pc = "send"
    /\ Len(chans[tasks[s].ch]) < ChanCap(tasks[s].op)
    /\ chans' = [chans EXCEPT ![tasks[s].ch] = Append(@, s)]
    /\ tasks' = [tasks EXCEPT ![s].pc = AfterSend]
    /\ UNCHANGED <<got, one, three>>

\* <-done by the caller of operation u
ReceiveTwo(u) ==
    /\ tasks[u].ret.ch
    /\ chans[tasks[u].ch] # <<>>
    /\ got' = [got EXCEPT ![u] = Append(@, Head(chans[tasks[u].ch]))]
    /\ chans' = [chans EXCEPT ![tasks[u].ch] = Tail(@)]
    /\ UNCHANGED <<tasks, one, three>>

\* The send of operation s on an unbuffered channel meets the <-done of the
\* caller u that holds this channel.
RendezvousTwo(s, u) ==
    /\ tasks[s].pc = "send"
    /\ ChanCap(tasks[s].op) = 0
    /\ tasks[u].ret.ch /\ tasks[u].ch = tasks[s].ch
    /\ got' = [got EXCEPT ![u] = Append(@, s)]
    /\ tasks' = [tasks EXCEPT ![s].pc = AfterSend]
    /\ UNCHANGED <<chans, one, three>>

NextTwo ==
    \E s \in Sid :
        \/ CallTwo(s)
        \/ ReturnTwo(s)
        \/ TaskStep(s)
        \/ SendTwo(s)
        \/ ReceiveTwo(s)
        \/ \E u \in Sid : RendezvousTwo(s, u)

----
(* New, and the request the four operations post *)

Space == " "
Tab == "\t"
\* Any character that is not white space.
Letter == "h"
UrlChars == {Space, Tab, Letter}
Urls == UNION {[1..k -> UrlChars] : k \in 0..MaxUrl}

RECURSIVE TrimLeft(_, _)
TrimLeft(u, cutset) ==
    IF u # <<>> /\ Head(u) \in cutset THEN TrimLeft(Tail(u), cutset) ELSE u

RECURSIVE TrimRight(_, _)
TrimRight(u, cutset) ==
    IF u # <<>> /\ u[Len(u)] \in cutset
    THEN TrimRight(SubSeq(u, 1, Len(u) - 1), cutset)
    ELSE u

\* strings.Trim(u, cutset): u without its leading and trailing characters
\* that are in cutset.
Trim(u, cutset) == TrimRight(TrimLeft(u, cutset), cutset)

NilClient == [nil |-> TRUE, chat |-> <<>>, completion |-> <<>>]

Cutset_Whitespace == {Space, Tab}
\* url = strings.Trim(url, " ")
Cutset == {Space}

New(url) ==
    LET u == Trim(url, Cutset) IN
    IF u = <<>>
    THEN [client |-> NilClient, err |-> "ErrUrl"]
    ELSE [client |-> [nil |-> FALSE,
                      chat |-> u \o <<"/api/chat">>,
                      completion |-> u \o <<"/api/generate">>],
          err |-> "nil"]

DEFAULT_MODEL == "llama2"
Models == {"", "llama2", "mistral"}

ModelOf_Unchanged(model) == model
\* if model == "" { model = DEFAULT_MODEL }
ModelOf(model) == IF model = "" THEN DEFAULT_MODEL ELSE model

\* c.urls["chat"] in Chat and PlainChat, c.urls["completion"] in Completion
\* and PlainCompletion.
Endpoint(c, o) == IF o \in {"Chat", "PlainChat"} THEN c.chat ELSE c.completion

NoNew == [called |-> FALSE, url |-> <<>>, client |-> NilClient, err |-> "nil"]
NoRequest == [op |-> "none", arg |-> "", url |-> <<>>, model |-> ""]

NewClient ==
    /\ ~newcall.called
    /\ \E url \in Urls :
          newcall' = [called |-> TRUE, url |-> url,
                      client |-> New(url).client, err |-> New(url).err]
    /\ UNCHANGED <<request, one, two>>

\* The request an operation builds and posts, its arguments being valid.
Post ==
    /\ newcall.called /\ ~newcall.client.nil
    /\ request = NoRequest
    /\ \E o \in Ops, model \in Models :
          request' = [op |-> o, arg |-> model,
                      url |-> Endpoint(newcall.client, o), model |-> ModelOf(model)]
    /\ UNCHANGED <<newcall, one, two>>

NextClient == NewClient \/ Post

----
Init ==
    /\ op = "none"
    /\ req = [cbNil |-> FALSE, noMsg |-> FALSE, encErr |-> FALSE, postErr |-> FALSE,
              status |-> 0]
    /\ posts = 0
    /\ ret = NotReturned
    /\ pc = "init"
    /\ stream = <<>>
    /\ term = "open"
    /\ buf = <<>>
    /\ pending = NoCall
    /\ calls = <<>>
    /\ inflight = 0
    /\ reads = 0
    /\ closed = 0
    /\ chan = <<>>
    /\ sent = 0
    /\ recvd = 0
    /\ cause = "nil"
    /\ mem = <<>>
    /\ newcall = NoNew
    /\ request = NoRequest
    /\ tasks = [s \in Sid |-> NoTaskYet]
    /\ chans = [c \in Sid |-> <<>>]
    /\ got = [s \in Sid |-> <<>>]

Next ==
    \/ Call
    \/ ReturnChan
    \/ TypedRead
    \/ TypedCallback
    \/ PlainLine
    \/ PlainRead
    \/ PlainKept
    \/ PlainCallback
    \/ Return
    \/ Close
    \/ Send
    \/ Receive
    \/ Rendezvous

Spec == Init /\ [][Next]_vars

SpecTwo == Init /\ [][NextTwo]_vars

SpecClient == Init /\ [][NextClient]_vars

----
(* Vocabulary of the properties *)

Last(q) == q[Len(q)]

\* Index of the first newline of s at or after i (0 when there is none).
RECURSIVE NextNL(_, _)
NextNL(s, i) ==
    IF i > Len(s) THEN 0
    ELSE IF s[i] = NL THEN i
    ELSE NextNL(s, i + 1)

\* The newline-terminated lines of s, each with its newline; bytes after the
\* last newline are not a line.
RECURSIVE LinesFrom(_, _)
LinesFrom(s, i) ==
    LET n == NextNL(s, i) IN
    IF n = 0 THEN <<>>
    ELSE <<SubSeq(s, i, n)>> \o LinesFrom(s, n + 1)

Lines(s) == LinesFrom(s, 1)

NewlineTerminated(s) == s = <<>> \/ Last(s) = NL

\* The text a line carries when it is one complete JSON object and its
\* newline, "" for a blank line, "bad" otherwise.
LineText(l) ==
    IF l = <<ObjA, NL>> THEN "a"
    ELSE IF l = <<Open, TailC, NL>> THEN "c"
    ELSE IF l = <<NL>> THEN ""
    ELSE "bad"

RECURSIVE Texts(_)
\* The texts of the object lines of a sequence of lines, in order.
Texts(ls) ==
    IF ls = <<>> THEN <<>>
    ELSE (IF LineText(ls[1]) = "" THEN <<>> ELSE <<LineText(ls[1])>>)
         \o Texts(Tail(ls))

\* NDJSON: every line is one complete object, nothing follows the last line.
WellFormedNDJSON(s) ==
    /\ NewlineTerminated(s)
    /\ \A i \in 1..Len(Lines(s)) : LineText(Lines(s)[i]) \in {"a", "c"}

\* Some complete object lines, then an object that is opened and never
\* finished.
TruncatedMidObject(s) ==
    /\ s # <<>>
    /\ Last(s) = Open
    /\ WellFormedNDJSON(SubSeq(s, 1, Len(s) - 1))

\* Objects separated by newlines and blank lines, as the test servers write
\* them (Encode, then one more "\n").
ObjectLines(s) ==
    /\ NewlineTerminated(s)
    /\ \A i \in 1..Len(Lines(s)) : LineText(Lines(s)[i]) # "bad"

\* Every object line is followed by exactly one blank line.
BlankLineAfterEach(s) ==
    LET ls == Lines(s) IN
    /\ NewlineTerminated(s)
    /\ Len(ls) % 2 = 0
    /\ \A i \in 1..Len(ls) :
          IF i % 2 = 1 THEN LineText(ls[i]) \in {"a", "c"} ELSE ls[i] = <<NL>>

\* The background task was started / the operation has returned.
Started == op # "none" /\ pc # "failed"
Returned == ret # NotReturned
Errors == {i \in 1..Len(calls) : calls[i].err # "nil"}
Drained == pc \in {"send", "done"}

\* The callback of TestChatResponse / TestCompletionResponse: the text of
\* every error-free invocation, appended in callback order.
RECURSIVE TypedText(_)
TypedText(cs) ==
    IF cs = <<>> THEN <<>>
    ELSE (IF cs[1].err = "nil" THEN <<cs[1].val>> ELSE <<>>) \o TypedText(Tail(cs))

\* json.Unmarshal of a delivered string into a zeroed response: the text of
\* the object when the string is one JSON value and white space, else "".
Unmarshal(l) ==
    IF /\ Scan(l) \in {"endA", "endC"}
       /\ \A j \in (ValueEnd(l) + 1)..Len(l) : l[j] = NL
    THEN Decoded(Scan(l))
    ELSE ""

\* The callback of TestPlainChatResponse / TestPlainCompletionResponse.
RECURSIVE PlainText(_)
PlainText(cs) ==
    IF cs = <<>> THEN <<>>
    ELSE (IF cs[1].err = "nil" /\ Unmarshal(cs[1].val) # ""
          THEN <<Unmarshal(cs[1].val)>> ELSE <<>>)
         \o PlainText(Tail(cs))

RECURSIVE Concat(_)
\* The strings delivered to the callback, joined in callback order.
Concat(cs) == IF cs = <<>> THEN <<>> ELSE cs[1].val \o Concat(Tail(cs))

----
(* Properties *)

\* C1: for a well-formed NDJSON body of N objects, however it is split into
\* reads, StreamResponse makes exactly N invocations, the k-th with the k-th
\* object and a nil error, and the completion value is written once.
\* Violated: a Read that returns more than one object loses all but the
\* first, because every iteration builds a new json.Decoder.
C1_EveryObjectDelivered ==
    (Started /\ Typed(op) /\ pc = "done" /\ term = "EOF" /\ WellFormedNDJSON(stream))
        => /\ calls = [k \in 1..Len(Lines(stream)) |->
                          [val |-> LineText(Lines(stream)[k]), err |-> "nil"]]
           /\ sent = 1

\* C2: for a body that ends in the middle of an object, StreamResponse makes
\* exactly one error invocation (nil value, ErrDecoding), it is the last
\* invocation, and the completion value is written.
\* Violated: when the opened object arrives in the same Read as the object
\* before it, it is dropped with the decoder and the next decoder sees a
\* clean end-of-stream.
C2_TruncationReported ==
    (Started /\ Typed(op) /\ pc = "done" /\ term = "EOF" /\ TruncatedMidObject(stream))
        => /\ Cardinality(Errors) = 1
           /\ Last(calls) = [val |-> "nil", err |-> "ErrDecoding"]
           /\ sent = 1

\* C3: a started operation writes at most one value to its channel, has
\* written exactly one when its background task has ended, and makes no
\* callback invocation once the value is written.
C3_OneSignalAfterCallbacks ==
    /\ [](sent <= 1 /\ (sent = 1 => Started /\ pc = "done")
          /\ (Started /\ pc = "done" => sent = 1))
    /\ [][sent >= 1 => calls' = calls]_vars

C3_Witness == pc = "done" /\ sent = 1 /\ Len(calls) >= 2

\* C4: in every run of either streamer Close is called exactly once,
\* whichever way the loop ended, and no Read and no callback invocation
\* follows it.
C4_ClosedOnceAtTheEnd ==
    /\ [](Started => /\ (Drained => closed = 1)
                     /\ (~Drained => closed = 0))
    /\ [][Started /\ closed >= 1 => reads' = reads /\ calls' = calls]_vars

C4_Witness ==
    /\ Started /\ pc = "done" /\ closed = 1
    /\ Len(calls) >= 2 /\ Last(calls).err # "nil"

\* C5: once the callback has been invoked with an error there is no other
\* invocation and no other Read: at most one error invocation per stream,
\* and it is the last one.
C5_ErrorIsLast ==
    /\ [](Cardinality(Errors) <= 1 /\ (Errors # {} => Errors = {Len(calls)}))
    /\ [][Errors # {} => calls' = calls /\ reads' = reads]_vars

C5_Witness == Errors # {} /\ Len(calls) >= 2 /\ pc = "done"

\* C6: when the first Read reports end-of-stream with no bytes, the
\* callback is never invoked, the body is closed and the completion value
\* is written exactly once.
C6_EmptyStream ==
    (Started /\ stream = <<>> /\ term = "EOF")
        => /\ calls = <<>>
           /\ pending = NoCall
           /\ pc \in {"close", "send", "done"}
           /\ (Drained => closed = 1)
           /\ (pc = "done" => sent = 1)

C6_Witness == Started /\ stream = <<>> /\ term = "EOF" /\ pc = "done" /\ sent = 1

\* C7: for a body of k newline-terminated lines, however it is split into
\* reads, StreamPlainResponse makes exactly k invocations with a nil error,
\* the i-th with the i-th line and its newline, and completion is signalled
\* afterwards.
C7_LinesDelivered ==
    (Started /\ ~Typed(op) /\ pc = "done" /\ term = "EOF" /\ NewlineTerminated(stream))
        => /\ calls = [i \in 1..Len(Lines(stream)) |->
                          [val |-> Lines(stream)[i], err |-> "nil"]]
           /\ sent = 1

C7_Witness ==
    /\ Started /\ ~Typed(op) /\ pc = "done" /\ term = "EOF"
    /\ stream = <<ObjA, NL, TailC, NL, NL>>
    /\ reads = 2
    /\ Len(calls) = 3

\* C8: for a body that ends with end-of-stream, the strings
\* StreamPlainResponse delivers, joined in callback order, are exactly the
\* bytes of the body, also when the last line has no newline.
\* Violated: ReadString returns the unterminated last line together with
\* io.EOF, and the loop returns on io.EOF without looking at the data.
C8_PlainDeliversEveryByte ==
    (Started /\ ~Typed(op) /\ pc = "done" /\ term = "EOF")
        => Concat(calls) = stream

\* C9: on the typed path, when the service has streamed objects each with a
\* text, the texts of the error-free invocations appended in callback order
\* are, once the completion value is received, the texts in the order sent.
\* Violated for the same reason as C1.
C9_TypedTextReassembled ==
    (Started /\ Typed(op) /\ recvd = 1 /\ term = "EOF" /\ ObjectLines(stream))
        => TypedText(calls) = Texts(Lines(stream))

\* C10: on the plain path, when every object is on its own line followed by
\* a blank line, decoding every delivered string and appending its text in
\* callback order gives, once the completion value is received, the texts in
\* the order sent; each blank line is an invocation of its own with a nil
\* error and adds no text.
C10_PlainTextReassembled ==
    (Started /\ ~Typed(op) /\ recvd = 1 /\ term = "EOF" /\ BlankLineAfterEach(stream))
        => /\ PlainText(calls) = Texts(Lines(stream))
           /\ Len(calls) = Len(Lines(stream))
           /\ \A i \in 1..Len(calls) :
                 /\ calls[i].err = "nil"
                 /\ (i % 2 = 0 => calls[i].val = <<NL>> /\ Unmarshal(calls[i].val) = "")

C10_Witness ==
    /\ Started /\ ~Typed(op) /\ recvd = 1 /\ term = "EOF"
    /\ stream = <<ObjA, NL, NL, Open, TailC, NL, NL, ObjA, NL, NL>>
    /\ PlainText(calls) = <<"a", "c", "a">>
    /\ calls[2] = [val |-> <<NL>>, err |-> "nil"]
    /\ Len(calls) = 6

\* The POST came back with a response (no transport error).
Responded == op # "none" /\ posts = 1 /\ ~req.postErr
\* No background task and no channel; the body is read by the operation
\* itself when the status is 400, and not at all otherwise.
NoTask ==
    /\ pc = "failed" /\ calls = <<>> /\ pending = NoCall /\ inflight = 0
    /\ chan = <<>> /\ sent = 0 /\ recvd = 0
    /\ ret.err # "ErrBadRequest" => reads = 0 /\ stream = <<>>
\* The operation hands its caller a channel and a nil error: it has done so,
\* or it can do so at once, wherever the background task is.
ChannelAndNil == [ch |-> TRUE, err |-> "nil"]
ReturnsChannel ==
    /\ Started
    /\ ret \in {NotReturned, ChannelAndNil}
    /\ ~Returned => ENABLED ReturnChan

\* C11: when the POST returns 404 or any other non-2xx status the operation
\* returns a nil channel and a non-nil error: no background task, no
\* completion value, no callback invocation.
C11_Non2xxIsSynchronousError ==
    (Responded /\ req.status \notin 200..299)
        => ~ret.ch /\ ret.err # "nil" /\ NoTask

C11_Witness == Responded /\ req.status = 404 /\ ~ret.ch /\ pc = "failed"

\* C12 as stated: every non-success status in 400..499 gives ErrBadRequest,
\* every other non-success status gives ErrInvoke.
\* Violated: the switch has one case, http.StatusBadRequest; 404 falls into
\* default and gives ErrInvoke, which is what the validation tests expect.
C12_Every4xxIsBadRequest ==
    (Responded /\ req.status \notin 200..299)
        => ret.err = (IF req.status \in 400..499 THEN "ErrBadRequest" ELSE "ErrInvoke")

\* C12 amended: status 400, and only 400, gives ErrBadRequest; every other
\* non-success status, the other 4xx statuses included, gives ErrInvoke.
C12_Only400IsBadRequest ==
    (Responded /\ req.status \notin 200..299)
        => ret.err = (IF req.status = StatusBadRequest THEN "ErrBadRequest" ELSE "ErrInvoke")

C12_Witness == Responded /\ req.status = 404 /\ ret.err = "ErrInvoke"

\* C13: for each of the four operations a 404 response gives a nil channel
\* and ErrInvoke (not ErrBadRequest), a 400 response a nil channel and
\* ErrBadRequest.
C13_NotFoundAndBadRequest ==
    /\ (Responded /\ req.status = 404) => ~ret.ch /\ ret.err = "ErrInvoke"
    /\ (Responded /\ req.status = 400) => ~ret.ch /\ ret.err = "ErrBadRequest"
    /\ \A o \in Ops : op = o /\ Responded /\ req.status \in {400, 404} => pc = "failed"

C13_Witness == op = "PlainCompletion" /\ Responded /\ req.status = 400 /\ ret.err = "ErrBadRequest"

\* C14: the argument checks come before any I/O: a nil callback gives
\* (nil, ErrCallback) also when the message is missing too, a non-nil
\* callback without a message gives (nil, ErrMessage); in both cases no
\* request is sent, no task is started and the callback is never invoked.
C14_ValidationFirst ==
    /\ (op # "none" /\ req.cbNil) => ret = [ch |-> FALSE, err |-> "ErrCallback"]
    /\ (op # "none" /\ ~req.cbNil /\ req.noMsg) => ret = [ch |-> FALSE, err |-> "ErrMessage"]
    /\ (op # "none" /\ (req.cbNil \/ req.noMsg)) => posts = 0 /\ closed = 0 /\ NoTask

C14_Witness == op # "none" /\ req.cbNil /\ req.noMsg /\ ret.err = "ErrCallback" /\ posts = 0

\* The JSON scanner rejects the body before any value is complete, as it
\* does for the body "ok".
NonJSON(s) == Scan(s) \in {"endS", "error"}

\* C15: a 200 response whose body is not JSON is no dispatch failure on the
\* typed path: the operation returns a channel and a nil error, the callback
\* is invoked exactly once, with a nil value and ErrDecoding, and the
\* completion value is delivered after it.
C15_NonJSONIsDecodeError ==
    /\ [](Responded /\ req.status = StatusOK => ReturnsChannel)
    /\ []((Started /\ Typed(op) /\ NonJSON(stream) /\ pc \notin {"read", "cb"})
            => calls = <<[val |-> "nil", err |-> "ErrDecoding"]>>)
    /\ []((Started /\ Typed(op) /\ NonJSON(stream) /\ pc = "done")
            => sent = 1 /\ closed = 1)
    /\ [][(Typed(op) /\ NonJSON(stream) /\ sent' > sent)
            => calls = <<[val |-> "nil", err |-> "ErrDecoding"]>> /\ inflight = 0]_vars

C15_Witness ==
    /\ op = "Chat" /\ ret = ChannelAndNil /\ stream = <<TailC>> /\ pc = "done" /\ recvd = 1
    /\ calls = <<[val |-> "nil", err |-> "ErrDecoding"]>>

\* C16 as stated: on the plain path, for a non-JSON body, every callback
\* invocation carries ErrDecoding.
\* Violated: StreamPlainResponse decodes nothing; a non-JSON line that ends
\* with a newline is delivered as it is, with a nil error.
C16_PlainReportsErrDecoding ==
    (Started /\ ~Typed(op) /\ NonJSON(stream))
        => \A i \in 1..Len(calls) : calls[i].err = "ErrDecoding"

\* C16 amended: on the plain path, for a non-JSON body, the operation
\* returns a channel and a nil error; the newline-terminated lines of the
\* body are delivered as they are with a nil error (none when the body has
\* no newline), no invocation carries ErrDecoding, and the completion value
\* is delivered afterwards.
C16_PlainDeliversRawLines ==
    /\ (Responded /\ req.status = StatusOK /\ ~Typed(op))
          => ReturnsChannel
    /\ (Started /\ ~Typed(op)) => \A i \in 1..Len(calls) : calls[i].err # "ErrDecoding"
    /\ (Started /\ ~Typed(op) /\ NonJSON(stream) /\ term = "EOF" /\ Drained)
          => calls = [i \in 1..Len(Lines(stream)) |->
                         [val |-> Lines(stream)[i], err |-> "nil"]]
    /\ (Started /\ ~Typed(op) /\ NonJSON(stream) /\ sent = 1)
          => pc = "done" /\ inflight = 0 /\ closed = 1

C16_Witness ==
    /\ op = "PlainChat" /\ Started /\ stream = <<TailC, NL>> /\ term = "EOF"
    /\ calls = <<[val |-> <<TailC, NL>>, err |-> "nil"]>> /\ recvd = 1

\* C17: when the caller's receive on the completion channel returns,
\* streaming is over: the body is closed, every callback invocation has
\* returned, and nothing the callback wrote changes afterwards.
C17_ReceiveMeansFinished ==
    /\ [](recvd >= 1 => /\ Started /\ pc = "done"
                        /\ closed = 1 /\ inflight = 0 /\ pending = NoCall)
    /\ [][recvd >= 1 => calls' = calls /\ closed' = closed /\ reads' = reads]_vars

C17_Witness == recvd = 1 /\ closed = 1 /\ Len(calls) >= 2 /\ ChanCap(op) = 1

\* C18: after a successful dispatch the operation returns the channel
\* without waiting for the stream: as long as it has not returned it can
\* return at once, wherever the background task is; its return reads
\* nothing, invokes nothing and sends nothing; and what it returned never
\* changes afterwards.
C18_ReturnsBeforeStreaming ==
    /\ []((Started /\ ~Returned) => ENABLED ReturnChan)
    /\ [][(Started /\ ret' # ret)
            => /\ ret' = ChannelAndNil
               /\ UNCHANGED <<pc, stream, term, reads, calls, closed, chan, sent, recvd>>]_vars
    /\ [][Returned => ret' = ret]_vars

\* The operation has returned while nothing of the body has been read.
C18_Witness ==
    /\ ret = ChannelAndNil /\ req.status = StatusOK
    /\ pc = "read" /\ reads = 0 /\ term = "open" /\ sent = 0

\* C19: for one stream the callback is never invoked concurrently with
\* itself: at most one invocation is in flight, every invocation is started
\* by the background task at its callback statement, and only when the
\* invocation before it has returned.
C19_OneInvocationAtATime ==
    /\ [](inflight \in {0, 1} /\ (inflight = 1 <=> pc = "incb"))
    /\ [][calls' # calls
            => /\ pc = "cb" /\ inflight = 0 /\ inflight' = 1
               /\ calls' = Append(calls, pending)]_vars

C19_Witness == inflight = 1 /\ Len(calls) = 2 /\ pc = "incb"

----
(* C20: two operations started concurrently from the same Client *)

RECURSIVE TokensIn(_)
TokensIn(q) == IF q = <<>> THEN {} ELSE {Head(q)} \cup TokensIn(Tail(q))

\* The lines delivered so far by a plain operation, errors left out.
Delivered(cs) == SelectSeq(cs, LAMBDA c : c.err = "nil")

\* The units operation s handed to its callback come from its own body.
OwnUnits(s) ==
    LET t == tasks[s] IN
    IF Typed(t.op)
    THEN \A i \in 1..Len(t.calls) :
            /\ t.calls[i].val = "a" => ObjA \in TokensIn(t.stream)
            /\ t.calls[i].val = "c" => TailC \in TokensIn(t.stream)
    ELSE IsPrefix([i \in 1..Len(Delivered(t.calls)) |-> Delivered(t.calls)[i].val],
                  Lines(t.stream))

\* The channel of operation s carries, and its caller receives, only the one
\* completion of operation s, sent after the task of s closed its body.
OwnCompletion(s) ==
    /\ \A i \in 1..Len(got[s]) : got[s][i] = s
    /\ \A i \in 1..Len(chans[s]) : chans[s][i] = s
    /\ Len(got[s]) + Len(chans[s]) <= 1
    /\ Len(got[s]) + Len(chans[s]) = 1 => tasks[s].pc = "done" /\ tasks[s].closed = 1

Running(t) == t.pc \in {"read", "cb", "incb", "close"}

\* C20: two streaming operations started concurrently from the same Client are
\* independent under every interleaving: each callback receives only units of
\* its own byte stream, each completion channel receives only the completion
\* of its own stream, and an error or the end of one stream neither stops the
\* other (its task can still take its next step) nor signals it (a step of one
\* operation leaves the state, the channel and the caller of the other alone).
C20_ConcurrentStreamsIndependent ==
    /\ [](\A s \in Sid : /\ OwnUnits(s)
                         /\ OwnCompletion(s)
                         /\ Running(tasks[s]) => ENABLED TaskStep(s))
    /\ [][\A s \in Sid : \A t \in Sid \ {s} :
             tasks'[s] # tasks[s] =>
                 /\ tasks'[t] = tasks[t]
                 /\ chans'[t] = chans[t]
                 /\ got'[t] = got[t]]_vars

\* Operation 1 (typed) ended on a decoding error and signalled its own caller,
\* while operation 2 (plain) went on to its end of stream, delivered its line
\* and signalled its own caller.
C20_Witness ==
    /\ Typed(tasks[1].op) /\ ~Typed(tasks[2].op)
    /\ tasks[1].pc = "done" /\ tasks[2].pc = "done"
    /\ tasks[1].calls = <<[val |-> "nil", err |-> "ErrDecoding"]>>
    /\ tasks[2].stream = <<NL>>
    /\ tasks[2].calls = <<[val |-> <<NL>>, err |-> "nil"]>>
    /\ tasks[2].term = "EOF"
    /\ got = [s \in Sid |-> <<s>>]

----
\* The strings of the error-free invocations, in callback order.
DeliveredLines == [i \in 1..Len(Delivered(calls)) |-> Delivered(calls)[i].val]

\* The error invocation is about to be made / has been made.
Reporting == pc = "cb" /\ pending.err # "nil"
Reported == pc \in {"close", "send", "done"} \/ (pc = "incb" /\ pending.err # "nil")

\* C21: when a Read fails in StreamPlainResponse with an error other than
\* end-of-stream, the callback is invoked exactly once with the empty string
\* and that error, after the lines that came with the failed Read; the bytes
\* of the unfinished line read before the failure are not delivered (the
\* error-free invocations are the newline-terminated lines of the body); then
\* the loop ends, without another Read, and the body is closed.
C21_PlainReadErrorReported ==
    /\ []((Started /\ ~Typed(op) /\ term = "ERR") =>
            /\ IsPrefix(DeliveredLines, Lines(stream))
            /\ Reporting =>
                  /\ pending = [val |-> <<>>, err |-> "ERR"]
                  /\ Errors = {} /\ DeliveredLines = Lines(stream)
            /\ Reported =>
                  /\ Last(calls) = [val |-> <<>>, err |-> "ERR"]
                  /\ Errors = {Len(calls)} /\ DeliveredLines = Lines(stream)
            /\ (~Reporting /\ ~Reported) => Errors = {}
            /\ (Drained => closed = 1))
    /\ [][(~Typed(op) /\ term = "ERR") => reads' = reads /\ stream' = stream]_vars
    /\ [][(~Typed(op) /\ term = "ERR" /\ pc = "incb" /\ pending.err # "nil" /\ pc' # pc)
            => pc' = "close"]_vars

C21_Witness ==
    /\ Started /\ ~Typed(op) /\ term = "ERR" /\ pc = "done" /\ closed = 1
    /\ stream = <<ObjA, NL, Open>> /\ reads = 1
    /\ calls = <<[val |-> <<ObjA, NL>>, err |-> "nil"], [val |-> <<>>, err |-> "ERR"]>>

\* C22: when the model argument is the empty string, Chat, PlainChat,
\* Completion and PlainCompletion post the request with model "llama2"; a
\* non-empty model is posted unchanged.
C22_DefaultModel ==
    \A o \in Ops :
        request.op = o =>
            request.model = (IF request.arg = "" THEN "llama2" ELSE request.arg)

C22_Witness == request.op = "PlainCompletion" /\ request.arg = "" /\ request.model = "llama2"

OnlyWhitespace(u) == \A i \in 1..Len(u) : u[i] \in {Space, Tab}

\* C23: New returns a nil client and ErrUrl whenever the URL is empty or holds
\* only white space, and otherwise a client and a nil error, the chat endpoint
\* being the trimmed URL followed by "/api/chat" and the completion endpoint
\* the trimmed URL followed by "/api/generate".
\* Violated: New trims with the cutset " ", so a URL of tabs is not empty after
\* the trim and a client is returned for it.
C23_NewValidatesUrl ==
    newcall.called =>
        IF OnlyWhitespace(newcall.url)
        THEN newcall.client.nil /\ newcall.err = "ErrUrl"
        ELSE /\ ~newcall.client.nil /\ newcall.err = "nil"
             /\ newcall.client.chat =
                    Trim(newcall.url, Cutset_Whitespace) \o <<"/api/chat">>
             /\ newcall.client.completion =
                    Trim(newcall.url, Cutset_Whitespace) \o <<"/api/generate">>

\* C24: after a successful call of any of the four operations, once the
\* streamer has returned, the background task's write of the completion value
\* completes and the task ends even if the caller never receives: whenever
\* the task stands at its send and nothing has been received, the send can
\* complete by itself, and completing it ends the task.
\* Violated: Chat and PlainChat make the channel without a buffer, so the
\* send waits for a receive that may never come.
C24_SendNeverBlocks ==
    /\ []((Started /\ pc = "send") => ENABLED Send)
    /\ [][(pc = "send" /\ sent' = sent + 1) => pc' = "done"]_vars

\* C25: every response body of a POST that came back without transport error
\* is closed exactly once on every path of the operation: by the streamer for
\* status 200, by the operation itself for status 400 and for any other
\* status.
\* Violated: the default case of the status switch returns ErrInvoke without
\* closing the body.
C25_BodyClosedOnEveryPath ==
    /\ closed <= 1
    /\ (Responded /\ pc \in {"failed", "done"}) => closed = 1

RECURSIVE Values(_)
\* The texts of the complete objects at the start of s, up to the first byte
\* that is not part of a complete object.
Values(s) ==
    IF Scan(s) \in {"endA", "endC"}
    THEN <<Decoded(Scan(s))>> \o Values(SubSeq(s, ValueEnd(s) + 1, Len(s)))
    ELSE <<>>

\* C26: when StreamResponse reports a decode error, the successful invocations
\* before it are exactly the complete objects of the body before the
\* malformed or truncated point, in order, however the bytes are grouped into
\* reads.
\* Violated for the reason of C1: an object that arrives in the same Read as
\* the object before it is dropped with the decoder of that iteration.
C26_NoObjectSkippedBeforeError ==
    (Started /\ Typed(op) /\ Errors # {})
        => TypedText(calls) = Values(stream)

\* The steps of the background task inside the streamer, the return of the
\* callback included.
StreamerStep ==
    \/ TypedRead \/ TypedCallback
    \/ PlainLine \/ PlainRead \/ PlainKept \/ PlainCallback
    \/ Return \/ Close

InStreamer == Started /\ pc \in {"read", "cb", "incb", "close"}

\* What is left to do once the body has ended: it gets smaller with every
\* step of the task (the operation's return is no step of the task), so the
\* task cannot go on for ever.
Rank ==
    CASE pc = "read" -> 4 * Len(buf) + 5
      [] pc = "cb" /\ pending.err = "nil" -> 4 * Len(buf) + 7
      [] pc = "incb" /\ pending.err = "nil" -> 4 * Len(buf) + 6
      [] pc = "cb" -> 4
      [] pc = "incb" -> 3
      [] pc = "close" -> 2
      [] pc = "send" -> 1
      [] OTHER -> 0

\* C27: if the body eventually reports end-of-stream or a read error, then,
\* the background task being scheduled fairly and the callback returning, the
\* streamer eventually returns and the completion value is eventually written;
\* the streamer stops for no other reason, a successful invocation is always
\* followed by another read attempt.  In finite-run form: inside the streamer
\* the task always has a next step; once the body has ended every step brings
\* the task nearer to its end; at the send the write can complete; the loop
\* is left only on the end of the body or after an error invocation, and the
\* return of a successful invocation leads to the next read.
\* Violated for the reason of C24: on the unbuffered channel of Chat and
\* PlainChat the write completes only if the caller receives.
C27_RunsToCompletion ==
    /\ [](InStreamer => ENABLED StreamerStep)
    /\ [][(Started /\ term # "open" /\ pc # "done" /\ ret' = ret) => Rank' < Rank]_vars
    /\ [][(pc = "incb" /\ pending.err = "nil" /\ pc' # pc)
            => pc' = "read" /\ term' = term]_vars
    /\ [][(pc' = "close" /\ pc # "close")
            => \/ pc = "read" /\ term' = "EOF"
               \/ pc = "incb" /\ pending.err # "nil"]_vars
    /\ []((Started /\ pc = "send") => ENABLED (Send /\ pc' = "done"))

\* C28: every callback invocation made by StreamResponse has exactly one of
\* its two arguments non-nil: a decoded value with a nil error, or a nil value
\* with an error that matches ErrDecoding and wraps the error Decode returned;
\* never both nil, never both non-nil, never an error that is not ErrDecoding.
C28_ExactlyOneArgument ==
    (Started /\ Typed(op)) =>
        /\ \A i \in 1..Len(calls) :
              /\ (calls[i].val # "nil") # (calls[i].err # "nil")
              /\ calls[i].val \in {"nil", "a", "c"}
              /\ calls[i].err \in {"nil", "ErrDecoding"}
              /\ calls[i].err = "ErrDecoding"
                    => cause \in {"SyntaxError", "UnmarshalTypeError", "ErrUnexpectedEOF", "ERR"}
        /\ pc = "cb" => (pending.val # "nil") # (pending.err # "nil")
        /\ (Errors = {} /\ pc # "cb") => cause = "nil"

C28_Witness ==
    /\ Started /\ Typed(op) /\ pc = "done"
    /\ calls = <<[val |-> "a", err |-> "nil"], [val |-> "nil", err |-> "ErrDecoding"]>>
    /\ cause = "ErrUnexpectedEOF"

\* C29: a decoded object whose done field is true does not end the stream:
\* StreamResponse delivers it like any other object and goes on reading, so
\* the objects that follow it in the body are delivered too, and completion is
\* signalled only after the body reported end-of-stream or an error.
\* Violated for the reason of C1: an object that follows the done object in
\* the same Read is dropped, and the stream then looks as if it had ended at
\* the done object.
C29_DoneDoesNotEndTheStream ==
    /\ [][(Typed(op) /\ pc = "incb" /\ pending.err = "nil" /\ Done(pending.val)
              /\ pc' # pc)
            => pc' = "read" /\ closed' = 0 /\ sent' = 0]_vars
    /\ [](sent >= 1 => term # "open" \/ Errors # {})
    /\ []((Started /\ Typed(op) /\ Drained
             /\ \E i \in 1..Len(Values(stream)) : Done(Values(stream)[i]))
            => TypedText(calls) = Values(stream))

\* C30: for a body in which every line is one complete JSON object and its
\* newline, the typed decoder and the raw-line streamer coincide on the same
\* bytes: both make one error-free invocation per line and no other, and the
\* k-th raw line decodes to the value of the k-th typed invocation.
\* Violated for the reason of C1: the typed decoder loses the objects that
\* share a Read with the object before them, the raw-line streamer does not.
C30_TypedAndPlainCoincide ==
    (Started /\ pc = "done" /\ term = "EOF" /\ WellFormedNDJSON(stream)) =>
        IF Typed(op)
        THEN calls = [k \in 1..Len(Lines(stream)) |->
                         [val |-> Unmarshal(Lines(stream)[k]), err |-> "nil"]]
        ELSE calls = [k \in 1..Len(Lines(stream)) |->
                         [val |-> Lines(stream)[k], err |-> "nil"]]

\* The text of the k-th object StreamResponse decoded: the value of the k-th
\* error-free invocation, or of the invocation about to be made.
ObjectText(k) ==
    IF k <= Len(Delivered(calls)) THEN Delivered(calls)[k].val ELSE pending.val

\* C31: every value StreamResponse passes to the callback is decoded into a
\* fresh zero value: at any later time the variable behind the pointer of the
\* k-th invocation holds the zero value overwritten with the fields of the
\* k-th object alone; a field the k-th object does not have (done, in an
\* object without it) is zero whatever the objects before it held, and later
\* iterations leave the variable as it is.
C31_FreshZeroValue ==
    (Started /\ Typed(op)) =>
        /\ Len(mem) = Len(Delivered(calls))
                         + (IF pc = "cb" /\ pending.err = "nil" THEN 1 ELSE 0)
        /\ \A k \in 1..Len(mem) :
              /\ mem[k].text = ObjectText(k)
              /\ mem[k].done = Done(ObjectText(k))
              /\ ObjectText(k) = "a" => mem[k] = [text |-> "a", done |-> FALSE]

C31_Witness ==
    /\ Started /\ Typed(op) /\ pc = "done"
    /\ TypedText(calls) = <<"c", "a">>
    /\ mem = <<[text |-> "c", done |-> TRUE], [text |-> "a", done |-> FALSE]>>

\* C32: the completion channel is never closed and never gets a second value:
\* at most one value is sent and at most one received, and once the value has
\* been received the channel is empty, the task has ended and no further
\* receive can return.
C32_NoSecondCompletion ==
    /\ sent <= 1 /\ recvd <= 1
    /\ recvd = 1 =>
          /\ chan = <<>> /\ pc = "done"
          /\ ~ENABLED Receive
          /\ ~ENABLED Rendezvous
          /\ ~ENABLED Send

C32_Witness == Started /\ recvd = 1 /\ sent = 1 /\ pc = "done" /\ Len(calls) >= 1

\* C33: every string StreamPlainResponse delivers with a nil error is
\* non-empty and ends with a newline; when the body ends at end-of-stream the
\* bytes after its last newline are never delivered, neither as data nor with
\* an error: the invocations are the newline-terminated lines, in order, and
\* when the loop has ended all of them and no other.
C33_OnlyWholeLines ==
    (Started /\ ~Typed(op)) =>
        /\ \A i \in 1..Len(calls) :
              calls[i].err = "nil" => calls[i].val # <<>> /\ Last(calls[i].val) = NL
        /\ term = "EOF" =>
              /\ Errors = {} /\ pending.err = "nil"
              /\ IsPrefix([i \in 1..Len(calls) |-> calls[i].val], Lines(stream))
              /\ pc = "cb" => /\ Len(calls) < Len(Lines(stream))
                              /\ pending.val = Lines(stream)[Len(calls) + 1]
              /\ pc \in {"close", "send", "done"}
                    => calls = [i \in 1..Len(Lines(stream)) |->
                                   [val |-> Lines(stream)[i], err |-> "nil"]]

C33_Witness ==
    /\ Started /\ ~Typed(op) /\ pc = "done" /\ term = "EOF"
    /\ stream = <<ObjA, NL, Open, TailC>> /\ reads = 1
    /\ calls = <<[val |-> <<ObjA, NL>>, err |-> "nil"]>>

\* C34: every call of the four operations returns either a channel and a nil
\* error or a nil channel and an error, never both and never neither; there is
\* a background task exactly when a channel is returned; a transport failure
\* of the POST is returned as the transport's own error, with a nil channel.
C34_ChannelOrError ==
    op # "none" =>
        /\ ret.ch => ret.err = "nil"
        /\ Started => ReturnsChannel
        /\ ~Started => Returned /\ ~ret.ch /\ ret.err # "nil" /\ NoTask
        /\ (~req.cbNil /\ ~req.noMsg /\ ~req.encErr /\ req.postErr)
              => ret = [ch |-> FALSE, err |-> "transport"] /\ posts = 1

C34_Witness ==
    /\ op = "PlainChat" /\ ~req.cbNil /\ ~req.noMsg /\ req.postErr
    /\ ret = [ch |-> FALSE, err |-> "transport"] /\ pc = "failed"

\* C35: status 200 is the only status that starts streaming: a success status
\* other than 200 (201, 204) gives a nil channel and ErrInvoke, no background
\* task and no callback invocation.
C35_Only200Streams ==
    /\ (Responded /\ req.status \in 200..299 /\ req.status # 200)
          => ret = [ch |-> FALSE, err |-> "ErrInvoke"] /\ NoTask
    /\ (Responded /\ Started) => req.status = 200

C35_Witness ==
    /\ Responded /\ req.status = 201
    /\ ret = [ch |-> FALSE, err |-> "ErrInvoke"] /\ pc = "failed" /\ calls = <<>>

====
